---- MODULE Spec2Model ----
(***************************************************************************)
(* LifelogIO (src/src/gshock_api/iolib/lifelog_io.py): reassembly of a     *)
(* lifelog transfer announced on the Data Request SP (control) channel and *)
(* carried on the Convoy (data) channel, and the extraction of the step    *)
(* count at a fixed offset of the reassembled payload.                     *)
(*                                                                         *)
(* The class attributes of LifelogIO are the program state.  The two       *)
(* notification handlers run to completion on the event loop, so each is   *)
(* one atomic action.  request is a coroutine: it is cut at its two awaits *)
(* (the start-frame write and get_result).                                 *)
(*                                                                         *)
(* An Optional value is a sequence of length at most one: <<>> is None.    *)
(***************************************************************************)
EXTENDS Integers, Sequences, FiniteSets

\* ------------------------------------------------------------------ bounds

\* Number of request calls in a run (callers 1..MaxRequests).
MaxRequests == 2

\* Saturation value of the per-session history counters.
MaxCount == 2

\* ------------------------------------------------------- program constants

\* LifelogIO._STEPS_OFFSET
STEPS_OFFSET == 374

\* Size of the ABL-100 lifelog payload.
PAYLOAD_LEN == 400

\* ------------------------------------------------------------------ inputs

\* Values of the step-count field carried by the payloads (least significant
\* byte first).  The top byte stays below 128 so that the decoded value fits
\* the model checker's integers.
Fields == { <<100, 0, 0, 0>>, <<100, 0, 3, 4>> }

\* A payload of n bytes whose bytes STEPS_OFFSET .. STEPS_OFFSET+3 (0-based)
\* are f; every other byte depends on its position.
PayloadOf(n, f) ==
    [i \in 1..n |-> IF i > STEPS_OFFSET /\ i <= STEPS_OFFSET + 4
                    THEN f[i - STEPS_OFFSET]
                    ELSE 16 + (i % 10)]

Payloads == { PayloadOf(PAYLOAD_LEN, f) : f \in Fields }

\* Byte positions at which the transport may cut the payload into chunks.
Cuts == {0, 10, 100, 200, 300, 376, 378, 400}

\* Data-channel notifications: the empty notification, or the bytes of a
\* payload from the current end of the buffer up to a later cut.  The
\* payload outside the steps field repeats every 100 bytes, so a 100-byte
\* chunk can be byte for byte the chunk delivered just before it.
ConvoyInputs(buf) ==
    { <<>> } \cup
    { SubSeq(p, Len(buf) + 1, c) : p \in Payloads,
                                   c \in { k \in Cuts : k > Len(buf) } }

\* Control-channel notifications.
ShortFrames == { <<4, 17>>, <<0, 17, 10, 0>> }

StartFrames == { <<0, 17, 10, 0, 0>>, <<0, 17, 144, 1, 0>> }

EndFrames == { <<4, 17, 0, 0, 0>>, <<4, 17, 10, 0, 0>> }

OtherCategoryFrames == { <<0, 16, 144, 1, 0>>, <<4, 16, 0, 0, 0>> }

OtherCommandFrames == { <<1, 17, 10, 0, 0>> }

DrspInputs ==
    ShortFrames \cup StartFrames \cup EndFrames
        \cup OtherCategoryFrames \cup OtherCommandFrames

\* Control-channel notifications for the length decoding: every command,
\* category and length byte from the samples, at the ends and in the middle
\* of the byte range, alone or followed by more bytes.
ByteSamples == {0, 1, 255}

Tails == { <<>>, <<7>>, <<1, 255>> }

DecodeStartFrames ==
    { <<0, 17, a, b, c>> \o t : a \in ByteSamples, b \in ByteSamples,
                                c \in ByteSamples, t \in Tails }

DecodeFrames ==
    { <<command, category, a, b, c>> \o t :
          command \in {0, 4}, category \in {16, 17},
          a \in ByteSamples, b \in ByteSamples, c \in ByteSamples,
          t \in Tails }
        \cup ShortFrames

\* ------------------------------------------------------------------- state

VARIABLES
    connection,     \* LifelogIO._connection
    result,         \* LifelogIO._result: the id of a CancelableResult
    buffer,         \* LifelogIO._buffer
    expected_len,   \* LifelogIO._expected_len
    slots,          \* the CancelableResult objects, by id
    callers,        \* the request coroutines
    ack,            \* the latest end-frame write handed to create_task
    nAcks,          \* history: end-frame writes triggered in this session
    nSet,           \* history: calls of set_result in this session
    attempted,      \* history: _finalize_if_ready ran in this session
    dropped,        \* history: why the latest control notification was dropped
    oob             \* history: unpack_from was given a range outside the buffer

vars == << connection, result, buffer, expected_len, slots, callers, ack,
           nAcks, nSet, attempted, dropped, oob >>

hist == << nAcks, nSet, attempted, dropped, oob >>

\* The request calls, numbered in the order they are made.
Callers == 1..MaxRequests

Bump(n) == IF n < MaxCount THEN n + 1 ELSE n

\* -------------------------------------------------------- CancelableResult

\* CancelableResult(timeout): a pending one-shot slot; n counts deliveries.
NewSlot == [st |-> "pending", val |-> 0, n |-> 0]

\* CancelableResult.set_result: the first call delivers, a later one (or one
\* after the timer elapsed) is a no-op.
set_result_again(s, v) ==
    [slots EXCEPT ![s] = IF @.st = "timedout" THEN @
                         ELSE [st |-> "resolved", val |-> v, n |-> @.n + 1]]

set_result(s, v) ==
    [slots EXCEPT ![s] = IF @.st = "pending"
                         THEN [st |-> "resolved", val |-> v, n |-> @.n + 1]
                         ELSE @]

\* A CancelableResult that neither LifelogIO._result (res) nor a request
\* waiting in get_result (cs) refers to is unreachable: it is dropped.
Collect(sl, res, cs) ==
    [s \in DOMAIN sl |->
        IF res = << s >> \/ \E b \in DOMAIN cs : cs[b].pc = "waiting" /\ cs[b].slot = s
        THEN sl[s]
        ELSE NewSlot]

\* ------------------------------------------------------------------ struct

\* struct.unpack_from("<I", buf, off)[0]
unpack_from_be(buf, off) ==
    16777216 * buf[off + 1] + 65536 * buf[off + 2] + 256 * buf[off + 3] + buf[off + 4]

unpack_from(buf, off) ==
    buf[off + 1] + 256 * buf[off + 2] + 65536 * buf[off + 3] + 16777216 * buf[off + 4]

\* --------------------------------------------------------------- LifelogIO

Init ==
    /\ connection = <<>>
    /\ result = <<>>
    /\ buffer = <<>>
    /\ expected_len = <<>>
    /\ slots = [s \in Callers |-> NewSlot]
    /\ callers = [c \in Callers |-> [pc |-> "idle", cmd |-> <<>>, slot |-> 0, ret |-> 0]]
    /\ ack = "none"
    /\ nAcks = 0
    /\ nSet = 0
    /\ attempted = FALSE
    /\ dropped = "none"
    /\ oob = FALSE

\* The guard of the read in _finalize_if_ready: the buffer covers the field.
covers_steps_unguarded(buf) == TRUE

covers_steps(buf) == Len(buf) >= STEPS_OFFSET + 4

\* The read of the step count and its delivery.  unpack_from raises
\* struct.error, and nothing is delivered, when the buffer is too small.
deliver_steps(buf) ==
    IF Len(buf) < STEPS_OFFSET + 4
    THEN /\ oob' = TRUE
         /\ UNCHANGED << slots, nSet >>
    ELSE /\ slots' = set_result(result[1], unpack_from(buf, STEPS_OFFSET))
         /\ nSet' = Bump(nSet)
         /\ UNCHANGED oob

finalize_if_ready_no_watermark(buf, exp) ==
    /\ attempted' = TRUE
    /\ IF result = <<>> THEN UNCHANGED << slots, nSet, oob >>
       ELSE IF exp = <<>> THEN UNCHANGED << slots, nSet, oob >>
       ELSE IF covers_steps(buf) THEN deliver_steps(buf)
       ELSE UNCHANGED << slots, nSet, oob >>

\* LifelogIO._finalize_if_ready, on buffer buf and expected length exp.
finalize_if_ready(buf, exp) ==
    /\ attempted' = TRUE
    /\ IF result = <<>> THEN UNCHANGED << slots, nSet, oob >>
       ELSE IF exp = <<>> THEN UNCHANGED << slots, nSet, oob >>
       ELSE IF Len(buf) < exp[1] THEN UNCHANGED << slots, nSet, oob >>
       ELSE IF covers_steps(buf) THEN deliver_steps(buf)
       ELSE UNCHANGED << slots, nSet, oob >>

\* The start frame request sends: command 0x00, category 0x11, length 0.
start_cmd == << 0, 17, 0, 0, 0 >>

request_keeps_session(c) ==
    /\ callers[c].pc = "idle"
    /\ \A b \in Callers : b < c => callers[b].pc # "idle"
    /\ connection' = << "conn" >>
    /\ result' = << c >>
    /\ callers' = [callers EXCEPT ![c].pc = "writing", ![c].cmd = start_cmd]
    /\ slots' = Collect([slots EXCEPT ![c] = NewSlot], << c >>, callers')
    /\ nAcks' = 0
    /\ nSet' = 0
    /\ attempted' = FALSE
    /\ dropped' = "none"
    /\ oob' = FALSE
    /\ UNCHANGED << buffer, expected_len, ack >>

\* LifelogIO.request up to its first await: the session is reset and the
\* start frame is handed to connection.write.
request(c) ==
    /\ callers[c].pc = "idle"
    /\ \A b \in Callers : b < c => callers[b].pc # "idle"   \* calls are numbered in order
    /\ connection' = << "conn" >>
    /\ buffer' = <<>>
    /\ expected_len' = <<>>
    /\ result' = << c >>
    /\ callers' = [callers EXCEPT ![c].pc = "writing", ![c].cmd = start_cmd]
    /\ slots' = Collect([slots EXCEPT ![c] = NewSlot], << c >>, callers')
    /\ nAcks' = 0
    /\ nSet' = 0
    /\ attempted' = FALSE
    /\ dropped' = "none"
    /\ oob' = FALSE
    /\ UNCHANGED ack

\* The awaited start-frame write returns: request goes on to
\* LifelogIO._result.get_result(), on the slot LifelogIO._result names now.
write_done(c) ==
    /\ callers[c].pc = "writing"
    /\ callers' = [callers EXCEPT ![c].pc = "waiting", ![c].cmd = <<>>,
                                  ![c].slot = result[1]]
    /\ UNCHANGED << connection, result, buffer, expected_len, slots, ack, hist >>

\* The awaited start-frame write raises: the exception leaves request.
write_failed(c) ==
    /\ callers[c].pc = "writing"
    /\ callers' = [callers EXCEPT ![c].pc = "raised", ![c].cmd = <<>>]
    /\ UNCHANGED << connection, result, buffer, expected_len, slots, ack, hist >>

\* get_result: a value was delivered.
get_result_value(c) ==
    /\ callers[c].pc = "waiting"
    /\ slots[callers[c].slot].st = "resolved"
    /\ callers' = [callers EXCEPT ![c].pc = "returned", ![c].slot = 0,
                                  ![c].ret = slots[callers[c].slot].val]
    /\ slots' = Collect(slots, result, callers')
    /\ UNCHANGED << connection, result, buffer, expected_len, ack, hist >>

\* get_result: the timer elapsed with no value delivered.
get_result_timeout(c) ==
    /\ callers[c].pc = "waiting"
    /\ slots[callers[c].slot].st # "resolved"
    /\ callers' = [callers EXCEPT ![c].pc = "timeout", ![c].slot = 0]
    /\ slots' = Collect([slots EXCEPT ![callers[c].slot].st = "timedout"],
                        result, callers')
    /\ UNCHANGED << connection, result, buffer, expected_len, ack, hist >>

\* An early return of on_drsp_received: nothing but the history changes.
drop(why) ==
    /\ dropped' = why
    /\ UNCHANGED << connection, result, buffer, expected_len, slots, callers,
                    ack, nAcks, nSet, attempted, oob >>

drsp_control_any_sets_length(command, length) ==
    /\ expected_len' = << length >>
    /\ IF command = 4
       THEN finalize_if_ready(buffer, expected_len)
       ELSE UNCHANGED << slots, nSet, attempted, oob >>
    /\ dropped' = "none"
    /\ UNCHANGED << connection, result, buffer, callers, ack, nAcks >>

\* on_drsp_received on a frame of category 0x11: the start command sets the
\* expected length, the end command finalizes.
drsp_control(command, length) ==
    /\ IF command = 0
       THEN expected_len' = << length >>
       ELSE UNCHANGED expected_len
    /\ IF command = 4
       THEN finalize_if_ready(buffer, expected_len)
       ELSE UNCHANGED << slots, nSet, attempted, oob >>
    /\ dropped' = "none"
    /\ UNCHANGED << connection, result, buffer, callers, ack, nAcks >>

drsp_frame_be(data) ==
    LET command == data[1]
        category == data[2]
        length == data[5] + 256 * data[4] + 65536 * data[3]
    IN IF category # 17 THEN drop("category")
       ELSE drsp_control(command, length)

\* on_drsp_received on a frame of at least 5 bytes.
drsp_frame(data) ==
    LET command == data[1]
        category == data[2]
        length == data[3] + 256 * data[4] + 65536 * data[5]
    IN IF category # 17 THEN drop("category")
       ELSE drsp_control(command, length)

\* LifelogIO.on_drsp_received
on_drsp_received_padded(data) ==
    drsp_frame(SubSeq(data \o << 0, 0, 0, 0, 0 >>, 1, 5))

on_drsp_received_any_category(data) ==
    IF Len(data) < 5 THEN drop("short")
    ELSE drsp_control(data[1], data[3] + 256 * data[4] + 65536 * data[5])

on_drsp_received(data) ==
    IF Len(data) < 5 THEN drop("short")
    ELSE drsp_frame(data)

\* The watermark test of on_convoy_received.
watermark_reached(buf, exp) == exp # <<>> /\ Len(buf) >= exp[1]

on_convoy_received_dedup(data) ==
    IF data = <<>> THEN UNCHANGED vars
    ELSE LET dup == /\ Len(data) <= Len(buffer)
                    /\ SubSeq(buffer, Len(buffer) - Len(data) + 1, Len(buffer)) = data
             buf == IF dup THEN buffer ELSE buffer \o data
         IN /\ buffer' = buf
            /\ IF watermark_reached(buf, expected_len)
               THEN /\ IF connection # <<>>
                       THEN /\ nAcks' = Bump(nAcks)
                            /\ \/ ack' = "pending"
                               \/ ack' = ack
                       ELSE UNCHANGED << nAcks, ack >>
                    /\ finalize_if_ready(buf, expected_len)
               ELSE UNCHANGED << nAcks, ack, slots, nSet, attempted, oob >>
            /\ dropped' = "none"
            /\ UNCHANGED << connection, result, expected_len, callers >>

on_convoy_received_after_write(data) ==
    IF data = <<>> THEN UNCHANGED vars
    ELSE LET buf == buffer \o data
         IN /\ buffer' = buf
            /\ IF watermark_reached(buf, expected_len)
               THEN IF connection # <<>>
                    THEN /\ nAcks' = Bump(nAcks)
                         /\ \/ ack' = "pending"
                            \/ ack' = ack
                         /\ UNCHANGED << slots, nSet, attempted, oob >>
                    ELSE /\ UNCHANGED << nAcks, ack >>
                         /\ finalize_if_ready(buf, expected_len)
               ELSE UNCHANGED << nAcks, ack, slots, nSet, attempted, oob >>
            /\ dropped' = "none"
            /\ UNCHANGED << connection, result, expected_len, callers >>

\* LifelogIO.on_convoy_received
on_convoy_received(data) ==
    IF data = <<>> THEN UNCHANGED vars
    ELSE LET buf == buffer \o data
         IN /\ buffer' = buf
            /\ IF watermark_reached(buf, expected_len)
               THEN /\ IF connection # <<>>
                       THEN /\ nAcks' = Bump(nAcks)
                            /\ \/ ack' = "pending"   \* create_task scheduled the write
                               \/ ack' = ack         \* create_task raised: suppressed
                       ELSE UNCHANGED << nAcks, ack >>
                    /\ finalize_if_ready(buf, expected_len)
               ELSE UNCHANGED << nAcks, ack, slots, nSet, attempted, oob >>
            /\ dropped' = "none"
            /\ UNCHANGED << connection, result, expected_len, callers >>

\* The end-frame write scheduled last completes: its task is gone.
end_write_done ==
    /\ ack = "pending"
    /\ ack' = "none"
    /\ UNCHANGED << connection, result, buffer, expected_len, slots, callers, hist >>

\* The end-frame write scheduled last raises: the exception stays in its
\* task, which is gone.
end_write_failed ==
    /\ ack = "pending"
    /\ ack' = "none"
    /\ UNCHANGED << connection, result, buffer, expected_len, slots, callers, hist >>

Next ==
    \/ \E c \in Callers : request(c)
    \/ \E c \in Callers : write_done(c)
    \/ \E c \in Callers : write_failed(c)
    \/ \E c \in Callers : get_result_value(c)
    \/ \E c \in Callers : get_result_timeout(c)
    \/ \E data \in DrspInputs : on_drsp_received(data)
    \/ \E data \in ConvoyInputs(buffer) : on_convoy_received(data)
    \/ end_write_done
    \/ end_write_failed

Spec == Init /\ [][Next]_vars

\* The event loop runs every coroutine that can go on: an awaited write
\* returns or raises, and get_result returns or its timer elapses.
FairSpec ==
    /\ Spec
    /\ \A c \in Callers : WF_vars(write_done(c) \/ write_failed(c))
    /\ \A c \in Callers : WF_vars(get_result_value(c) \/ get_result_timeout(c))

\* The device sends its lifelog only in answer to the start frame: no
\* result slot is resolved while its own call is still writing that frame.
AnswersAfterStart ==
    \A c \in Callers :
        (result = << c >> /\ callers[c].pc = "writing") => slots[c].st = "pending"

OrderedNext == Next /\ AnswersAfterStart'

\* The behaviours in which the device answers after the start frame.
OrderedSpec == Init /\ [][OrderedNext]_vars

\* The control channel alone, on every frame of DecodeFrames, with no
\* session installed.
DecodeNext == \E data \in DecodeFrames : on_drsp_received(data)

DecodeSpec == Init /\ [][DecodeNext]_vars

\* ------------------------------------------------------------------ claims

\* The session's slot: the CancelableResult LifelogIO._result refers to.
Slot == slots[result[1]]

\* The step count of a byte sequence that covers the field: its bytes
\* 374..377 (0-based), least significant first.
StepsOf(b) == b[375] + 256 * b[376] + 65536 * b[377] + 16777216 * b[378]

\* C1: with the expected length announced and the result still pending, the
\* data notification that brings the buffer from below the announced length
\* to it (or past it), on a buffer of at least 378 bytes, resolves the slot
\* with the little-endian 32-bit value of bytes 374..377 of the reassembled
\* buffer, whatever the chunks were.
C1_ChunkInvariance ==
    [][ ( /\ result # <<>> /\ result' = result
          /\ expected_len # <<>>
          /\ Slot.st = "pending"
          /\ Len(buffer) < expected_len[1]
          /\ Len(buffer') >= expected_len[1]
          /\ Len(buffer') >= 378 )
        => Slot' = [st |-> "resolved", val |-> StepsOf(buffer'), n |-> 1] ]_vars

\* C1 witness: length 400 announced, 400 bytes delivered with bytes 374..377
\* equal to 64 00 00 00, and request returned 100.
C1_Witness ==
    /\ result # <<>>
    /\ expected_len = << 400 >>
    /\ Len(buffer) = 400
    /\ SubSeq(buffer, 375, 378) = << 100, 0, 0, 0 >>
    /\ Slot = [st |-> "resolved", val |-> 100, n |-> 1]
    /\ callers[result[1]].pc = "returned"
    /\ callers[result[1]].ret = 100

\* C2: a slot delivers at most once, however often set_result is called on
\* it; a resolved slot has delivered exactly once and holds the value the
\* first finalization read, and a returned request holds that value.
C2_ExactlyOnce ==
    /\ \A s \in DOMAIN slots :
          /\ slots[s].n <= 1
          /\ slots[s].st = "resolved" <=> slots[s].n = 1
    /\ result # <<>> /\ Slot.st = "resolved" =>
          /\ Len(buffer) >= 378
          /\ Slot.val = StepsOf(buffer)
          /\ callers[result[1]].pc = "returned" => callers[result[1]].ret = Slot.val

\* C2 witness: set_result was called at least twice in the session, the slot
\* delivered once and request returned the value.
C2_Witness ==
    /\ result # <<>>
    /\ nSet >= 2
    /\ Slot.st = "resolved" /\ Slot.n = 1
    /\ callers[result[1]].pc = "returned"
    /\ callers[result[1]].ret = Slot.val

\* C3 (as claimed): after a data notification that leaves the buffer at or
\* past the announced length, exactly one end-frame write has been triggered
\* in the session.
C3_AckExactlyOnce ==
    [][ ( /\ result # <<>> /\ result' = result
          /\ expected_len # <<>>
          /\ Len(buffer') > Len(buffer)
          /\ Len(buffer') >= expected_len[1] )
        => nAcks' = 1 ]_vars

\* C4 (as claimed): every call of request ends, and ends either with the
\* value or with the timeout error.
C4_RequestCompletes ==
    \A c \in Callers :
        (callers[c].pc = "writing") ~> (callers[c].pc \in {"returned", "timeout"})

\* The watermark is reached on a buffer too short to hold the step count.
ShortPayload ==
    /\ result # <<>>
    /\ expected_len # <<>>
    /\ Len(buffer) >= expected_len[1]
    /\ Len(buffer) < 378

\* C5: while the watermark is reached on a buffer of fewer than 378 bytes,
\* no finalization has delivered a value or read outside the buffer, and a
\* request waiting on the session's slot can leave get_result only with the
\* timeout error.
C5_ShortPayloadTimesOut ==
    [][ ShortPayload' =>
          /\ Slot'.st # "resolved"
          /\ nSet' = 0
          /\ ~oob'
          /\ \A c \in Callers :
                ( /\ result' = result
                  /\ callers[c].pc = "waiting"
                  /\ callers[c].slot = result[1] )
                => callers'[c].pc \in {"waiting", "timeout"} ]_vars

\* C5 witness: length 10 announced, 10 bytes arrived, the data notification
\* that reached the watermark ran the finalization, and request timed out.
C5_Witness ==
    /\ ShortPayload
    /\ expected_len = << 10 >>
    /\ Len(buffer) = 10
    /\ nAcks = 1
    /\ attempted
    /\ Slot.st = "timedout"
    /\ callers[result[1]].pc = "timeout"

\* C6 (as claimed): no request ends with an error other than the timeout.
C6_OnlyTimeoutError ==
    \A c \in Callers : callers[c].pc # "raised"

\* C7: a control notification shorter than 5 bytes changes neither
\* expected_len nor the buffer, runs no finalization and resolves nothing.
C7_ShortFrameIgnored ==
    [][ (\E data \in ShortFrames : on_drsp_received(data))
        => UNCHANGED << expected_len, buffer, slots, attempted, nSet, oob >> ]_vars

\* C7 witness: a short notification was dropped in a session that has an
\* announced length, part of the data and a pending slot.
C7_Witness ==
    /\ dropped = "short"
    /\ result # <<>>
    /\ expected_len = << 400 >>
    /\ Len(buffer) = 100
    /\ ~attempted
    /\ Slot.st = "pending"

\* C8: a control notification of at least 5 bytes whose category is not 0x11
\* changes nothing of the session and sends nothing.
C8_OtherCategoryIgnored ==
    [][ (\E data \in OtherCategoryFrames : on_drsp_received(data))
        => UNCHANGED << connection, result, buffer, expected_len, slots,
                        callers, ack, nAcks, nSet, attempted, oob >> ]_vars

\* C8 witness: a frame of another category was dropped while the buffer had
\* reached the announced length 400 and the slot was resolved.
C8_Witness ==
    /\ dropped = "category"
    /\ result # <<>>
    /\ expected_len = << 400 >>
    /\ Len(buffer) = 400
    /\ Slot.st = "resolved"

\* C9 (as claimed): within a session expected_len, once set, keeps its value.
C9_ExpectedLenWriteOnce ==
    [][ (result # <<>> /\ expected_len # <<>> /\ result' = result)
        => expected_len' = expected_len ]_vars

\* C10 (as claimed): set_result is called at most once in a session.
C10_FinalizeAtMostOnce ==
    result # <<>> => nSet <= 1

\* C11 (as claimed): in a session whose announced length is at least 378,
\* once the expected length is set and the buffer holds at least that many
\* bytes the result slot is resolved (or has timed out), in whatever order
\* the start frame and the data arrived and with no further notification.
C11_CompletesAtWatermark ==
    ( /\ result # <<>>
      /\ expected_len # <<>>
      /\ expected_len[1] >= STEPS_OFFSET + 4
      /\ Len(buffer) >= expected_len[1] )
    => Slot.st # "pending"

\* A step in which the result slot s becomes resolved.
Resolves(s) == slots[s].st # "resolved" /\ slots'[s].st = "resolved"

\* C12: whenever a step resolves a result slot, it is the slot of the current
\* session, the expected length is set, the buffer holds at least the
\* expected length and at least 378 bytes, and the value delivered is the
\* little-endian 32-bit integer of buffer[374..377] at that moment.
C12_ResolvePrecondition ==
    [][ \A s \in DOMAIN slots :
          Resolves(s) =>
            /\ result' = << s >>
            /\ expected_len' # <<>>
            /\ Len(buffer') >= expected_len'[1]
            /\ Len(buffer') >= STEPS_OFFSET + 4
            /\ slots'[s].val = StepsOf(buffer') ]_vars

C12_Witness ==
    /\ result # <<>>
    /\ expected_len = << 10 >>
    /\ Len(buffer) = 378
    /\ nAcks = 1
    /\ nSet = 1
    /\ Slot.st = "resolved"
    /\ Slot.val = 67305572

\* The length precondition of finalization.
Eligible ==
    /\ result # <<>>
    /\ expected_len # <<>>
    /\ Len(buffer) >= expected_len[1]
    /\ Len(buffer) >= STEPS_OFFSET + 4

\* C13: a device end frame (command 0x04, category 0x11) attempts
\* finalization and leaves buffer and expected length as they are, whatever
\* its length bytes; before any start frame or below the expected length it
\* resolves nothing, and under the length precondition it resolves the
\* pending result slot with the steps value.
C13_EndFrameFinalizes ==
    [][ (\E data \in EndFrames : on_drsp_received(data)) =>
          /\ attempted'
          /\ UNCHANGED << buffer, expected_len >>
          /\ (expected_len = <<>> \/ Len(buffer) < expected_len[1])
                => UNCHANGED << slots, nSet >>
          /\ (Eligible /\ Slot.st = "pending")
                => Slot' = [st |-> "resolved", val |-> StepsOf(buffer), n |-> 1] ]_vars

C13_Witness ==
    /\ Eligible
    /\ expected_len = << 400 >>
    /\ Len(buffer) = 400
    /\ attempted
    /\ nAcks = 0
    /\ Slot.st = "resolved"
    /\ Slot.val = 100

\* The bytes a step has put at the end of the buffer.
Appended == SubSeq(buffer', Len(buffer) + 1, Len(buffer'))

\* C14: a data notification that brings the buffer to the expected length
\* attempts finalization in the same handler run, and resolves the pending
\* slot with the steps value when the buffer covers the field, whether an
\* earlier end-frame write is still pending or gone, whether the new write
\* was scheduled or not, and with or without a connection; the completion
\* or failure of an end-frame write changes neither slots nor session.
C14_AckNeverGatesParsing ==
    [][ /\ ( /\ Len(buffer') > Len(buffer)
             /\ on_convoy_received(Appended)
             /\ watermark_reached(buffer', expected_len) )
           => /\ attempted'
              /\ ( /\ result # <<>>
                    /\ Len(buffer') >= STEPS_OFFSET + 4
                    /\ Slot.st = "pending" )
                 => Slot' = [st |-> "resolved", val |-> StepsOf(buffer'), n |-> 1]
        /\ (end_write_done \/ end_write_failed)
           => UNCHANGED << result, buffer, expected_len, slots, callers >> ]_vars

C14_Witness ==
    /\ result # <<>>
    /\ nAcks = 1
    /\ ack = "pending"
    /\ attempted
    /\ Slot.st = "resolved"
    /\ Slot.val = StepsOf(buffer)
    /\ callers[result[1]].pc = "returned"

IsPrefix(a, b) == Len(a) <= Len(b) /\ SubSeq(b, 1, Len(a)) = a

\* C15: within a session every step leaves the previous buffer as a prefix
\* of the new one; the buffer grows only by a data notification, and by
\* exactly that notification's bytes; no non-empty data notification leaves
\* the buffer as it was, also when its bytes repeat the bytes delivered just
\* before; a control notification, and the finalization it may run, leaves
\* the buffer alone.
C15_BufferAppendOnly ==
    [][ /\ result' = result => IsPrefix(buffer, buffer')
        /\ Len(buffer') > Len(buffer) => on_convoy_received(Appended)
        /\ ( /\ buffer' = buffer
             /\ dropped' = "none"
             /\ UNCHANGED << callers, expected_len >> )
           => \A data \in ConvoyInputs(buffer) :
                 data # <<>> => ~on_convoy_received(data)
        /\ buffer' # buffer
           => ~\E data \in DrspInputs : on_drsp_received(data) ]_vars

\* C15 witness: the second 100-byte chunk repeated the first one and is in
\* the buffer after it, and an end frame has run finalization since.
C15_Witness ==
    /\ result # <<>>
    /\ Len(buffer) = 200
    /\ SubSeq(buffer, 101, 200) = SubSeq(buffer, 1, 100)
    /\ expected_len = << 400 >>
    /\ attempted
    /\ Slot.st = "pending"

\* C16 (as claimed): once the result slot of the session is resolved or
\* timed out, no later step of that session changes the buffer or the
\* expected length, schedules an end frame or calls set_result.
C16_TerminalSessionRetired ==
    [][ ( /\ result # <<>>
          /\ result' = result
          /\ Slot.st \in {"resolved", "timedout"} )
        => UNCHANGED << buffer, expected_len, nAcks, nSet >> ]_vars

\* C17: request installs a fresh session (empty buffer, no expected length,
\* a new pending result slot, the connection) and hands one start frame
\* 00 11 00 00 00 to the connection; a call sends a start frame only there;
\* the expected length goes from unset to set only by a start frame of the
\* device; and a call returns the value of a resolved slot installed by its
\* own reset or a later one.
C17_StartOrdering ==
    [][ /\ \A c \in Callers :
              /\ request(c) =>
                    /\ buffer' = <<>>
                    /\ expected_len' = <<>>
                    /\ connection' # <<>>
                    /\ result' = << c >>
                    /\ Slot' = NewSlot
                    /\ callers'[c].cmd = << 0, 17, 0, 0, 0 >>
              /\ (callers'[c].cmd # <<>> /\ callers[c].cmd = <<>>) => request(c)
              /\ (callers'[c].pc = "returned" /\ callers[c].pc # "returned") =>
                    /\ callers[c].slot >= c
                    /\ slots[callers[c].slot].st = "resolved"
                    /\ callers'[c].ret = slots[callers[c].slot].val
        /\ (expected_len = <<>> /\ expected_len' # <<>>)
              => \E data \in StartFrames : on_drsp_received(data) ]_vars

\* C17 witness: the second call has reset the session and its start frame
\* is being written; nothing has been announced or received since.
C17_Witness ==
    /\ result = << 2 >>
    /\ callers[2].pc = "writing"
    /\ callers[2].cmd = start_cmd
    /\ callers[1].pc = "returned"
    /\ buffer = <<>>
    /\ expected_len = <<>>
    /\ Slot = NewSlot

\* A call that is still running while a later call's session is installed,
\* its own result not resolved.
Overlapped(c) ==
    /\ result # <<>>
    /\ result[1] > c
    /\ callers[c].pc \in {"writing", "waiting"}
    /\ ~( /\ callers[c].pc = "waiting"
          /\ callers[c].slot = c
          /\ slots[c].st = "resolved" )

\* C18 (as claimed, the exception of a failed start-frame write set aside):
\* a call whose session a later call replaced before its result was
\* resolved ends only with the timeout error.
C18_OverlappedCallTimesOut ==
    [][ \A c \in Callers :
          (Overlapped(c) /\ callers'[c].pc # callers[c].pc)
          => callers'[c].pc \in {"waiting", "timeout", "raised"} ]_vars

\* C19 (as claimed): once a data notification has reached the expected
\* length on a buffer of fewer than 378 bytes, and finalization has run on it
\* without delivering, no later step of the session resolves the pending
\* result slot, whatever notification it handles.
C19_ShortPayloadStaysPending ==
    [][ ( /\ result # <<>>
          /\ result' = result
          /\ nAcks >= 1
          /\ Len(buffer) < STEPS_OFFSET + 4
          /\ Slot.st = "pending" )
        => Slot'.st # "resolved" ]_vars

\* C20: a control notification of at least 5 bytes with command 0x00 and
\* category 0x11 sets the expected length to byte2 + 256*byte3 + 65536*byte4,
\* a value in 0 .. 2^24-1, whatever bytes follow the fifth.
C20_LengthDecoding ==
    [][ \A data \in DecodeStartFrames :
          on_drsp_received(data) =>
            /\ expected_len' = << data[3] + 256 * data[4] + 65536 * data[5] >>
            /\ expected_len'[1] \in 0 .. 16777215 ]_vars

\* C20 witness: the length bytes FF FF FF were decoded to 2^24-1.
C20_Witness ==
    /\ expected_len = << 16777215 >>
    /\ dropped = "none"
    /\ result = <<>>

====
